---- MODULE Spec2Model ----
(***************************************************************************)
(* geoslice: windowed raster store (FastGeoMap), flight simulation         *)
(* (simulate_flight) and flight path generators (FlightPath), pure-Python  *)
(* backend (_USE_CPP = False).                                             *)
(*                                                                         *)
(* Lengths are integers in units of a quarter metre, so the test fixture's *)
(* pixel size of 0.5 m is 2.  Real-valued library functions that integer   *)
(* arithmetic cannot compute (the transverse-Mercator series, tan, cos,    *)
(* sin) are kept uninterpreted: a waypoint of the simulation carries the   *)
(* value of _latlon_to_utm(lat, lon) and of 2*alt*tan(fov/2); a spiral     *)
(* waypoint carries its offset in polar form (radius, angle).              *)
(***************************************************************************)
EXTENDS Integers, Sequences, FiniteSets, TLC

VARIABLES fs, loader, last, raised, sim, gen, readers

vars == <<fs, loader, last, raised, sim, gen, readers>>

-----------------------------------------------------------------------------
(* Bounds of the model *)

Bands == 2
Height == 2
Width == 3
Slack == 1
Margin == 1
MaxWrites == 1
MaxPath == 2
MaxRows == 3
MaxCols == 3
MaxWaypoints == 4
NumReaders == 2

-----------------------------------------------------------------------------
(* Helpers *)

Max(a, b) == IF a >= b THEN a ELSE b
Min(a, b) == IF a <= b THEN a ELSE b
Abs(a) == IF a >= 0 THEN a ELSE -a

\* faulty variant: the quotient is floored
FloorDiv(a, b) == IF b > 0 THEN a \div b ELSE (-a) \div (-b)

\* int(a / b) on a real quotient a / b: truncation toward zero
TruncDiv(a, b) ==
    IF (a >= 0) = (b > 0) THEN Abs(a) \div Abs(b) ELSE -(Abs(a) \div Abs(b))

\* np.dtype(name).itemsize; 0 stands for a name numpy rejects
DTypeSize(dtype) ==
    CASE dtype = "uint8" -> 1
      [] dtype = "uint16" -> 2
      [] OTHER -> 0

\* the test fixture's payload: np.arange(n, dtype=uint8)
FileByte(i) == i % 256

RECURSIVE LEValue(_, _, _)
\* little-endian value of n bytes starting at 0-based offset start
LEValue(bytes, start, n) ==
    IF n = 0 THEN 0
    ELSE bytes[start + 1] + 256 * LEValue(bytes, start + 1, n - 1)

\* element k (0-based) of a raw payload read with the given item size
BufElem(bytes, itemsize, k) == LEValue(bytes, k * itemsize, itemsize)

-----------------------------------------------------------------------------
(* Arrays: a view into the store's memmap, or independently owned storage *)

NoneVal == [kind |-> "None", shape |-> <<0, 0, 0>>, x0 |-> 0, y0 |-> 0, data |-> <<>>]

\* np.empty((count, 0, 0))
EmptyArray(count) ==
    [kind |-> "owned", shape |-> <<count, 0, 0>>, x0 |-> 0, y0 |-> 0, data |-> <<>>]

\* Python slice start:stop (step 1) on an axis of length n: <<first, length>>
NpSlice(n, start, stop) ==
    LET norm(v) == IF v < 0 THEN Max(v + n, 0) ELSE Min(v, n)
        lo == norm(start)
        hi == norm(stop)
    IN  <<lo, Max(hi - lo, 0)>>

\* faulty variant: the payload read as (count, width, height)
MemmapAtTransposed(ld, b, r, c) ==
    ld.data[b * ld.meta.height * ld.meta.width + c * ld.meta.height + r + 1]

\* element [b, r, c] (0-based) of the memmap of shape (count, height, width)
MemmapAt(ld, b, r, c) ==
    ld.data[b * ld.meta.height * ld.meta.width + r * ld.meta.width + c + 1]

\* element [b, r, c] (0-based) of an array
ArrAt(ld, arr, b, r, c) ==
    IF arr.kind = "owned"
    THEN arr.data[b * arr.shape[2] * arr.shape[3] + r * arr.shape[3] + c + 1]
    ELSE MemmapAt(ld, b, arr.y0 + r, arr.x0 + c)

ArrSize(arr) == arr.shape[1] * arr.shape[2] * arr.shape[3]

\* the elements of an array in C order
Flatten(ld, arr) ==
    LET h == arr.shape[2]
        w == arr.shape[3]
    IN  [k \in 1..ArrSize(arr) |->
            ArrAt(ld, arr, (k - 1) \div (h * w), ((k - 1) % (h * w)) \div w, (k - 1) % w)]

-----------------------------------------------------------------------------
(* FastGeoMap *)

MemmapMode == "r"

\* faulty variant: the size test dropped, as in WindowParams.is_valid
is_valid_window_no_size_test(meta, x, y, width, height) ==
    /\ x >= 0 /\ y >= 0
    /\ x + width <= meta.width
    /\ y + height <= meta.height

is_valid_window(meta, x, y, width, height) ==
    /\ x >= 0 /\ y >= 0
    /\ x + width <= meta.width
    /\ y + height <= meta.height
    /\ width > 0 /\ height > 0

\* faulty variant: the origin is not clamped to 0
get_window_no_origin_clamp(meta, x, y, width, height) ==
    LET w1 == Min(width, meta.width - x)
        h1 == Min(height, meta.height - y)
        rows == NpSlice(meta.height, y, y + h1)
        cols == NpSlice(meta.width, x, x + w1)
    IN  IF w1 <= 0 \/ h1 <= 0
        THEN EmptyArray(meta.count)
        ELSE [kind |-> "view", shape |-> <<meta.count, rows[2], cols[2]>>,
              x0 |-> cols[1], y0 |-> rows[1], data |-> <<>>]

\* faulty variant: the extent is clamped one short of the raster edge
get_window_short_of_edge(meta, x, y, width, height) ==
    LET x1 == Max(0, x)
        y1 == Max(0, y)
        w1 == Min(width, meta.width - x1 - 1)
        h1 == Min(height, meta.height - y1 - 1)
        rows == NpSlice(meta.height, y1, y1 + h1)
        cols == NpSlice(meta.width, x1, x1 + w1)
    IN  IF w1 <= 0 \/ h1 <= 0
        THEN EmptyArray(meta.count)
        ELSE [kind |-> "view", shape |-> <<meta.count, rows[2], cols[2]>>,
              x0 |-> cols[1], y0 |-> rows[1], data |-> <<>>]

\* faulty variant: the request is intersected with the raster
get_window_intersecting(meta, x, y, width, height) ==
    LET x1 == Max(0, x)
        y1 == Max(0, y)
        w1 == Min(x + width, meta.width) - x1
        h1 == Min(y + height, meta.height) - y1
        rows == NpSlice(meta.height, y1, y1 + h1)
        cols == NpSlice(meta.width, x1, x1 + w1)
    IN  IF w1 <= 0 \/ h1 <= 0
        THEN EmptyArray(meta.count)
        ELSE [kind |-> "view", shape |-> <<meta.count, rows[2], cols[2]>>,
              x0 |-> cols[1], y0 |-> rows[1], data |-> <<>>]

get_window(meta, x, y, width, height) ==
    LET x1 == Max(0, x)
        y1 == Max(0, y)
        w1 == Min(width, meta.width - x1)
        h1 == Min(height, meta.height - y1)
        rows == NpSlice(meta.height, y1, y1 + h1)
        cols == NpSlice(meta.width, x1, x1 + w1)
    IN  IF w1 <= 0 \/ h1 <= 0
        THEN EmptyArray(meta.count)
        ELSE [kind |-> "view", shape |-> <<meta.count, rows[2], cols[2]>>,
              x0 |-> cols[1], y0 |-> rows[1], data |-> <<>>]

\* np.array(a): a fresh array holding a's elements
NpArray(ld, arr) ==
    [kind |-> "owned", shape |-> arr.shape, x0 |-> 0, y0 |-> 0, data |-> Flatten(ld, arr)]

\* faulty variant: the view is returned without copying (np.asarray)
get_window_copy_no_copy(ld, x, y, width, height) ==
    get_window(ld.meta, x, y, width, height)

get_window_copy(ld, x, y, width, height) ==
    NpArray(ld, get_window(ld.meta, x, y, width, height))

-----------------------------------------------------------------------------
(* The files on disk and the store built from them *)

\* the test fixture's affine transform (0.5, 0, 1000, 0, -0.5, 2000), in quarter metres
FixtureTransform == <<2, 0, 4000, 0, -2, 8000>>

NoMeta == [dtype |-> "", count |-> 0, height |-> 0, width |-> 0, transform |-> <<>>]

NoLoader == [state |-> "none", meta |-> NoMeta, data |-> <<>>]

NoCall == [op |-> "none", x |-> 0, y |-> 0, w |-> 0, h |-> 0, ok |-> FALSE, arr |-> NoneVal, writes |-> 0]

DTypes == {"uint8", "uint16", "float128x"}

Needed(meta) == meta.count * meta.height * meta.width * DTypeSize(meta.dtype)

\* a payload whose length is the size the descriptor calls for, plus e
Payload(meta, e) ==
    [i \in 1..(meta.count * meta.height * meta.width * Max(DTypeSize(meta.dtype), 1) + e) |->
        FileByte(i - 1)]

FixtureMeta(d) ==
    [dtype |-> d, count |-> Bands, height |-> Height, width |-> Width,
     transform |-> FixtureTransform]

FileSystems ==
    {[json |-> j, bin |-> b, meta |-> FixtureMeta(d), payload |-> Payload(FixtureMeta(d), e)] :
        j \in BOOLEAN, b \in BOOLEAN, d \in DTypes, e \in (-Slack)..Slack}

\* np.memmap(bin_path, dtype, mode='r', shape): mmap of shape's byte count; a file
\* shorter than that cannot be mapped, a longer one is mapped from its start
Memmap(f) ==
    [k \in 1..(f.meta.count * f.meta.height * f.meta.width) |->
        BufElem(f.payload, DTypeSize(f.meta.dtype), k - 1)]

ConstructError(f) ==
    CASE ~f.json -> "FileNotFoundError"
      [] ~f.bin -> "FileNotFoundError"
      [] DTypeSize(f.meta.dtype) = 0 -> "TypeError"
      [] Len(f.payload) < Needed(f.meta) -> "ValueError"
      [] OTHER -> "none"

Construct ==
    /\ loader.state = "none"
    /\ raised = "none"
    /\ LET err == ConstructError(fs)
       IN  /\ raised' = err
           /\ loader' = IF err = "none"
                        THEN [state |-> "ready", meta |-> fs.meta, data |-> Memmap(fs)]
                        ELSE loader
    /\ UNCHANGED <<fs, last, sim, gen, readers>>

\* The arguments a client passes.  Every call is a pure function of the store
\* and its arguments, so the first call after construction draws any window
\* and a later call reads the same window or the whole raster again.
AnyWindow ==
    {<<x, y, w, h>> : x \in (-Margin)..(Width + Margin), y \in (-Margin)..(Height + Margin),
                      w \in (-1)..(Width + 1), h \in (-1)..(Height + 1)}

Windows ==
    IF last.op = "none" THEN AnyWindow
    ELSE {<<last.x, last.y, last.w, last.h>>, <<0, 0, loader.meta.width, loader.meta.height>>}

CallIsValidWindow ==
    /\ loader.state = "ready"
    /\ \E win \in Windows :
          LET x == win[1]
              y == win[2]
              w == win[3]
              h == win[4]
          IN
          last' = [op |-> "is_valid_window", x |-> x, y |-> y, w |-> w, h |-> h,
                   ok |-> is_valid_window(loader.meta, x, y, w, h), arr |-> NoneVal, writes |-> 0]
    /\ raised' = "none"
    /\ UNCHANGED <<fs, loader, sim, gen, readers>>

CallGetWindow ==
    /\ loader.state = "ready"
    /\ \E win \in Windows :
          LET x == win[1]
              y == win[2]
              w == win[3]
              h == win[4]
          IN
          last' = [op |-> "get_window", x |-> x, y |-> y, w |-> w, h |-> h,
                   ok |-> FALSE, arr |-> get_window(loader.meta, x, y, w, h), writes |-> 0]
    /\ raised' = "none"
    /\ UNCHANGED <<fs, loader, sim, gen, readers>>

CallGetWindowCopy ==
    /\ loader.state = "ready"
    /\ \E win \in Windows :
          LET x == win[1]
              y == win[2]
              w == win[3]
              h == win[4]
          IN
          last' = [op |-> "get_window_copy", x |-> x, y |-> y, w |-> w, h |-> h,
                   ok |-> FALSE, arr |-> get_window_copy(loader, x, y, w, h), writes |-> 0]
    /\ raised' = "none"
    /\ UNCHANGED <<fs, loader, sim, gen, readers>>

\* the caller's arr[b, r, c] = v on the array the last call returned, at its
\* first or its last element
Poison(v) == (v + 1) % 256

WriteArray ==
    /\ last.op \in {"get_window", "get_window_copy"}
    /\ last.writes < MaxWrites
    /\ \E k \in {1, ArrSize(last.arr)} \ {0} :
          IF last.arr.kind = "owned"
          THEN /\ last' = [last EXCEPT !.arr.data[k] = Poison(@), !.writes = @ + 1]
               /\ raised' = "none"
               /\ UNCHANGED loader
          ELSE IF MemmapMode = "r"
          THEN /\ raised' = "ValueError"
               /\ last' = [last EXCEPT !.writes = @ + 1]
               /\ UNCHANGED loader
          ELSE LET h == last.arr.shape[2]
                   w == last.arr.shape[3]
                   b == (k - 1) \div (h * w)
                   r == ((k - 1) % (h * w)) \div w
                   c == (k - 1) % w
                   at == b * loader.meta.height * loader.meta.width
                         + (last.arr.y0 + r) * loader.meta.width + (last.arr.x0 + c) + 1
               IN  /\ loader' = [loader EXCEPT !.data[at] = Poison(@)]
                   /\ last' = [last EXCEPT !.writes = @ + 1]
                   /\ raised' = "none"
    /\ UNCHANGED <<fs, sim, gen, readers>>

NoSim == [pc |-> "off"]
NoGen == [fn |-> "off"]
NoReaders == [call |-> <<>>, frame |-> <<>>]

InitStore ==
    /\ fs \in FileSystems
    /\ loader = NoLoader
    /\ last = NoCall
    /\ raised = "none"
    /\ sim = NoSim
    /\ gen = NoGen
    /\ readers = NoReaders

NextStore ==
    \/ Construct
    \/ CallIsValidWindow
    \/ CallGetWindow
    \/ CallGetWindowCopy
    \/ WriteArray

SpecStore == InitStore /\ [][NextStore]_vars

-----------------------------------------------------------------------------
(* Properties of the store *)

\* strict validity of a window against a raster of the given size
StrictValid(mw, mh, x, y, w, h) ==
    x >= 0 /\ y >= 0 /\ w > 0 /\ h > 0 /\ x + w <= mw /\ y + h <= mh

\* C4: is_valid_window(x, y, w, h) returns true exactly when x >= 0, y >= 0,
\* w > 0, h > 0, x + w <= raster width and y + h <= raster height, and the call
\* leaves the store (metadata and buffer) as it was.
C4_IsValidWindowStrict ==
    [][last'.op = "is_valid_window" =>
          /\ last'.ok = StrictValid(loader'.meta.width, loader'.meta.height,
                                    last'.x, last'.y, last'.w, last'.h)
          /\ raised' = "none"
          /\ loader' = loader]_vars

C4_Witness ==
    /\ last.op = "is_valid_window"
    /\ last.ok
    /\ last.x > 0
    /\ last.x + last.w = loader.meta.width

\* C5: get_window never raises; with x' = max(0, x), y' = max(0, y),
\* w' = min(w, W - x'), h' = min(h, H - y') it returns shape (bands, 0, 0) when
\* w' <= 0 or h' <= 0 and otherwise a view of shape (bands, h', w') at (x', y')
\* lying inside the raster; on a 3x100x200 raster get_window(195, 95, 20, 20)
\* has shape (3, 5, 5).
C5_GetWindowClamps ==
    /\ (last.op = "get_window" /\ last.writes = 0) =>
          LET W == loader.meta.width
              H == loader.meta.height
              xc == Max(0, last.x)
              yc == Max(0, last.y)
              wc == Min(last.w, W - xc)
              hc == Min(last.h, H - yc)
          IN  /\ raised = "none"
              /\ IF wc <= 0 \/ hc <= 0
                 THEN last.arr.shape = <<loader.meta.count, 0, 0>>
                 ELSE /\ last.arr.kind = "view"
                      /\ last.arr.shape = <<loader.meta.count, hc, wc>>
                      /\ last.arr.x0 = xc /\ last.arr.y0 = yc
                      /\ last.arr.x0 + last.arr.shape[3] <= W
                      /\ last.arr.y0 + last.arr.shape[2] <= H
    /\ get_window([dtype |-> "uint8", count |-> 3, height |-> 100, width |-> 200,
                  transform |-> FixtureTransform],
                 195, 95, 20, 20).shape = <<3, 5, 5>>

C5_Witness ==
    /\ last.op = "get_window"
    /\ last.x > 0 /\ last.y > 0
    /\ last.x + last.w > loader.meta.width
    /\ last.y + last.h > loader.meta.height
    /\ last.arr.shape[2] > 0 /\ last.arr.shape[2] < last.h
    /\ last.arr.shape[3] > 0 /\ last.arr.shape[3] < last.w

\* C6: for a strictly valid window both get_window and get_window_copy return
\* an array of shape (bands, h, w) whose element (b, r, c) is the element of the
\* backing payload at flat band-sequential index b*H*W + (y+r)*W + (x+c).
C6_WindowEqualsBufferSlice ==
    (/\ last.op \in {"get_window", "get_window_copy"}
     /\ last.writes = 0
     /\ StrictValid(loader.meta.width, loader.meta.height, last.x, last.y, last.w, last.h))
    => /\ last.arr.shape = <<loader.meta.count, last.h, last.w>>
       /\ \A b \in 0..(loader.meta.count - 1), r \in 0..(last.h - 1), c \in 0..(last.w - 1) :
             ArrAt(loader, last.arr, b, r, c)
               = BufElem(fs.payload, DTypeSize(fs.meta.dtype),
                         b * loader.meta.height * loader.meta.width
                           + (last.y + r) * loader.meta.width + (last.x + c))

C6_Witness ==
    /\ last.op = "get_window_copy"
    /\ last.writes = 0
    /\ last.x > 0 /\ last.y > 0 /\ last.w > 1
    /\ fs.meta.dtype = "uint16"
    /\ StrictValid(loader.meta.width, loader.meta.height, last.x, last.y, last.w, last.h)

\* C7: get_window_copy returns the shape and contents get_window returns for
\* the same arguments, in storage of its own; writes to a returned copy leave
\* the store's buffer and metadata unchanged, so later reads are unaffected.
C7_CopyIndependent ==
    /\ [](last.op = "get_window_copy" /\ last.writes = 0 =>
             LET view == get_window(loader.meta, last.x, last.y, last.w, last.h)
             IN  /\ last.arr.kind = "owned"
                 /\ last.arr.shape = view.shape
                 /\ Flatten(loader, last.arr) = Flatten(loader, view))
    /\ [][/\ loader.state = "ready" => loader' = loader
          /\ fs' = fs]_vars

C7_Witness ==
    /\ last.op = "get_window_copy"
    /\ last.writes > 0
    /\ last.arr.kind = "owned"
    /\ Flatten(loader, last.arr)
         # Flatten(loader, get_window(loader.meta, last.x, last.y, last.w, last.h))
    /\ loader.data = Memmap(fs)

\* C8: construction fails whenever the payload's byte length differs from
\* bands*height*width*element-size (shorter or longer), and succeeds when the
\* length is exactly that product.
C8_ConstructionRequiresExactSize ==
    /\ loader.state = "ready" => Len(fs.payload) = Needed(fs.meta)
    /\ (/\ loader.state = "none" /\ raised # "none"
        /\ fs.json /\ fs.bin /\ DTypeSize(fs.meta.dtype) > 0)
       => Len(fs.payload) # Needed(fs.meta)

\* C17: the strict predicate and the permissive accessor agree: when
\* is_valid_window(x, y, w, h) holds, get_window(x, y, w, h) clamps nothing and
\* returns shape (bands, h, w) starting at column x and row y; and when
\* get_window returns shape (bands, h, w) with w > 0, h > 0, x >= 0, y >= 0,
\* is_valid_window(x, y, w, h) holds.
C17_StrictAndPermissiveAgree ==
    /\ (last.op = "get_window" /\ last.writes = 0) =>
          LET valid == is_valid_window(loader.meta, last.x, last.y, last.w, last.h)
          IN  /\ valid => /\ last.arr.kind = "view"
                          /\ last.arr.shape = <<loader.meta.count, last.h, last.w>>
                          /\ last.arr.x0 = last.x /\ last.arr.y0 = last.y
              /\ (/\ last.arr.shape = <<loader.meta.count, last.h, last.w>>
                  /\ last.w > 0 /\ last.h > 0 /\ last.x >= 0 /\ last.y >= 0) => valid
    /\ last.op = "is_valid_window" =>
          LET view == get_window(loader.meta, last.x, last.y, last.w, last.h)
          IN  /\ last.ok => /\ view.shape = <<loader.meta.count, last.h, last.w>>
                            /\ view.x0 = last.x /\ view.y0 = last.y
              /\ (/\ view.shape = <<loader.meta.count, last.h, last.w>>
                  /\ last.w > 0 /\ last.h > 0 /\ last.x >= 0 /\ last.y >= 0) => last.ok

C17_Witness ==
    /\ last.op = "get_window"
    /\ last.writes = 0
    /\ is_valid_window(loader.meta, last.x, last.y, last.w, last.h)
    /\ last.x = 1 /\ last.y = 1
    /\ last.w < loader.meta.width
    /\ last.arr.shape = <<loader.meta.count, last.h, last.w>>
    /\ last.arr.x0 = 1 /\ last.arr.y0 = 1

\* C18 as stated: for x < 0 and w > 0 the view covers columns 0 .. min(w, W)-1
\* (the requested width from column 0, not columns 0 .. x+w-1), likewise for
\* y < 0 and rows; so a request wholly left of or above the raster
\* (x+w <= 0 or y+h <= 0, with w, h > 0) still returns a non-empty view.
C18_NegativeOriginShifts ==
    (last.op = "get_window" /\ last.writes = 0) =>
        /\ (last.x < 0 /\ last.w > 0) =>
              /\ last.arr.x0 = 0
              /\ last.arr.shape[3] = Min(last.w, loader.meta.width)
        /\ (last.y < 0 /\ last.h > 0) =>
              /\ last.arr.y0 = 0
              /\ last.arr.shape[2] = Min(last.h, loader.meta.height)
        /\ (last.w > 0 /\ last.h > 0 /\ (last.x + last.w <= 0 \/ last.y + last.h <= 0)) =>
              ArrSize(last.arr) > 0

\* C18, amended: the same, provided the request is non-empty on both axes and
\* starts before the raster's far edge on both (w > 0, h > 0, x < W, y < H).
C18_NegativeOriginShiftsInReach ==
    (/\ last.op = "get_window" /\ last.writes = 0
     /\ last.w > 0 /\ last.h > 0
     /\ last.x < loader.meta.width /\ last.y < loader.meta.height) =>
        /\ last.x < 0 =>
              /\ last.arr.x0 = 0
              /\ last.arr.shape[3] = Min(last.w, loader.meta.width)
        /\ last.y < 0 =>
              /\ last.arr.y0 = 0
              /\ last.arr.shape[2] = Min(last.h, loader.meta.height)
        /\ (last.x + last.w <= 0 \/ last.y + last.h <= 0) => ArrSize(last.arr) > 0

C18_Witness ==
    /\ last.op = "get_window"
    /\ last.writes = 0
    /\ last.x < 0 /\ last.w > 0 /\ last.x + last.w <= 0
    /\ last.y = 0 /\ last.h = 2
    /\ last.arr.kind = "view"
    /\ last.arr.x0 = 0
    /\ last.arr.shape = <<loader.meta.count, 2, last.w>>

-----------------------------------------------------------------------------
(* GeoTransform, with _latlon_to_utm(lat, lon) and 2*alt*tan(fov/2) given *)

GeoTransform(transform) ==
    [pixel_size_x |-> transform[1], pixel_size_y |-> Abs(transform[5]),
     origin_x |-> transform[3], origin_y |-> transform[6]]

latlon_to_pixel(geo, utm_x, utm_y) ==
    <<TruncDiv(utm_x - geo.origin_x, geo.pixel_size_x),
      TruncDiv(geo.origin_y - utm_y, geo.pixel_size_y)>>

fov_to_pixels(geo, ground_width) ==
    <<TruncDiv(ground_width, geo.pixel_size_x), TruncDiv(ground_width, geo.pixel_size_y)>>

-----------------------------------------------------------------------------
(* WindowParams, FlightPath.state_to_window / compute_windows, simulate_flight *)

is_valid(win, map_width, map_height) ==
    /\ win.x >= 0 /\ win.y >= 0
    /\ win.x + win.width <= map_width
    /\ win.y + win.height <= map_height

\* faulty variant: the origin is clamped to the raster
state_to_window_clamped(state, geo) ==
    LET c == latlon_to_pixel(geo, state.utm_x, state.utm_y)
        p == fov_to_pixels(geo, state.ground_width)
    IN  [x |-> Max(0, c[1] - (p[1] \div 2)), y |-> Max(0, c[2] - (p[2] \div 2)),
         width |-> p[1], height |-> p[2]]

state_to_window(state, geo) ==
    LET c == latlon_to_pixel(geo, state.utm_x, state.utm_y)
        p == fov_to_pixels(geo, state.ground_width)
    IN  [x |-> c[1] - (p[1] \div 2), y |-> c[2] - (p[2] \div 2), width |-> p[1], height |-> p[2]]

compute_windows(waypoints, geo) ==
    [i \in 1..Len(waypoints) |-> state_to_window(waypoints[i], geo)]

\* faulty variant: an invalid window is skipped instead of recorded
LoopBodySkipInvalid(ld, callback, results, log, state, win) ==
    IF ~is_valid(win, ld.meta.width, ld.meta.height)
    THEN [results |-> results, log |-> log]
    ELSE LET data == get_window_copy(ld, win.x, win.y, win.width, win.height)
         IN  [results |-> Append(results, data),
              log |-> IF callback
                      THEN Append(log, [state |-> state, data |-> data,
                                        nresults |-> Len(results) + 1])
                      ELSE log]

\* faulty variant: the callback is invoked for every waypoint, placeholder included
LoopBodyNotifyAlways(ld, callback, results, log, state, win) ==
    LET data == IF is_valid(win, ld.meta.width, ld.meta.height)
                THEN get_window_copy(ld, win.x, win.y, win.width, win.height)
                ELSE NoneVal
    IN  [results |-> Append(results, data),
         log |-> IF callback
                 THEN Append(log, [state |-> state, data |-> data,
                                   nresults |-> Len(results) + 1])
                 ELSE log]

\* one iteration of the loop of simulate_flight; the callback is an observer
\* that records what it is given and how many results exist at that moment
LoopBody(ld, callback, results, log, state, win) ==
    IF ~is_valid(win, ld.meta.width, ld.meta.height)
    THEN [results |-> Append(results, NoneVal), log |-> log]
    ELSE LET data == get_window_copy(ld, win.x, win.y, win.width, win.height)
         IN  [results |-> Append(results, data),
              log |-> IF callback
                      THEN Append(log, [state |-> state, data |-> data,
                                        nresults |-> Len(results) + 1])
                      ELSE log]

SimStart ==
    /\ sim.pc = "idle"
    /\ loader.state = "ready"
    /\ sim' = [sim EXCEPT !.pc = "loop",
                          !.windows = compute_windows(sim.path, GeoTransform(loader.meta.transform)),
                          !.results = <<>>]
    /\ UNCHANGED <<fs, loader, last, raised, gen, readers>>

SimStep ==
    /\ sim.pc = "loop"
    /\ sim.i < Len(sim.path)
    /\ LET out == LoopBody(loader, sim.callback, sim.results, sim.log,
                           sim.path[sim.i + 1], sim.windows[sim.i + 1])
       IN  sim' = [sim EXCEPT !.i = @ + 1, !.results = out.results, !.log = out.log]
    /\ UNCHANGED <<fs, loader, last, raised, gen, readers>>

SimReturn ==
    /\ sim.pc = "loop"
    /\ sim.i = Len(sim.path)
    /\ sim' = [sim EXCEPT !.pc = "done"]
    /\ UNCHANGED <<fs, loader, last, raised, gen, readers>>

\* Waypoints offered to the simulation, relative to the raster origin
EastOffsets == {-1, 2, 4, 6}
SouthOffsets == {0, 2}
GroundWidths == {-2, 0, 2, 4}

FlightFs ==
    [json |-> TRUE, bin |-> TRUE, meta |-> FixtureMeta("uint8"),
     payload |-> Payload(FixtureMeta("uint8"), 0)]

\* FlightPath(waypoints) built from the offsets, in flight order
PathOf(n, e, s, g) ==
    [i \in 1..n |-> [utm_x |-> FixtureTransform[3] + e[i], utm_y |-> FixtureTransform[6] - s[i],
                     ground_width |-> g[i], timestamp |-> i - 1]]

InitFlight ==
    /\ fs = FlightFs
    /\ loader = [state |-> "ready", meta |-> fs.meta, data |-> Memmap(fs)]
    /\ last = NoCall
    /\ raised = "none"
    /\ \E cb \in BOOLEAN, n \in 0..MaxPath :
          \E e \in [1..n -> EastOffsets], s \in [1..n -> SouthOffsets], g \in [1..n -> GroundWidths] :
             sim = [pc |-> "idle", callback |-> cb, path |-> PathOf(n, e, s, g), windows |-> <<>>,
                    i |-> 0, results |-> <<>>, log |-> <<>>]
    /\ gen = NoGen
    /\ readers = NoReaders

NextFlight ==
    \/ SimStart
    \/ SimStep
    \/ SimReturn

SpecFlight == InitFlight /\ [][NextFlight]_vars

-----------------------------------------------------------------------------
(* Properties of simulate_flight *)

SimRunning == sim.pc \in {"loop", "done"}

\* C1: result[i] is the no-data placeholder exactly when the window of
\* waypoint i fails strict validity (x >= 0, y >= 0, width > 0, height > 0,
\* x + width <= raster width, y + height <= raster height).
C1_NoneIffNotStrictlyValid ==
    SimRunning =>
        \A k \in 1..Len(sim.results) :
            (sim.results[k] = NoneVal)
              <=> ~StrictValid(loader.meta.width, loader.meta.height,
                               sim.windows[k].x, sim.windows[k].y,
                               sim.windows[k].width, sim.windows[k].height)

\* the outcome simulate_flight records for one waypoint
Outcome(state) ==
    LET win == state_to_window(state, GeoTransform(loader.meta.transform))
    IN  IF is_valid(win, loader.meta.width, loader.meta.height)
        THEN get_window_copy(loader, win.x, win.y, win.width, win.height)
        ELSE NoneVal

\* C2: after k waypoints were processed the result list has k entries, entry i
\* is the outcome of waypoint i, and the returned list has len(path) entries,
\* with or without a callback.
C2_ResultsFollowPath ==
    SimRunning =>
        /\ Len(sim.results) = sim.i
        /\ sim.i <= Len(sim.path)
        /\ sim.pc = "done" => Len(sim.results) = Len(sim.path)
        /\ \A k \in 1..Len(sim.results) : sim.results[k] = Outcome(sim.path[k])

C2_Witness ==
    /\ sim.pc = "done"
    /\ Len(sim.results) >= 2
    /\ sim.results[1] = NoneVal
    /\ sim.results[2] # NoneVal
    /\ ArrSize(sim.results[2]) > 0

\* the waypoint indices whose result is data, in increasing order
RECURSIVE Extracted(_, _)
Extracted(results, k) ==
    IF k = 0 THEN <<>>
    ELSE IF results[k] = NoneVal THEN Extracted(results, k - 1)
    ELSE Append(Extracted(results, k - 1), k)

\* C3: a given callback is invoked exactly once per waypoint whose extraction
\* succeeded and never for a placeholder, in increasing waypoint order, after
\* the waypoint's data was appended, with that waypoint and the stored data;
\* without a callback nothing is invoked.
C3_CallbackOncePerExtraction ==
    SimRunning =>
        LET idx == Extracted(sim.results, Len(sim.results))
        IN  IF sim.callback
            THEN /\ Len(sim.log) = Len(idx)
                 /\ \A j \in 1..Len(idx) :
                       /\ sim.log[j].state = sim.path[idx[j]]
                       /\ sim.log[j].data = sim.results[idx[j]]
                       /\ sim.log[j].nresults = idx[j]
            ELSE sim.log = <<>>

C3_Witness ==
    /\ sim.pc = "done"
    /\ sim.callback
    /\ Len(sim.results) >= 2
    /\ sim.results[1] = NoneVal
    /\ sim.results[2] # NoneVal
    /\ Len(sim.log) = 1

\* C16: the window of every waypoint has (width, height) = fov_to_pixels of
\* the waypoint and origin x = cx - width/2, y = cy - height/2 by integer
\* (floor) division, (cx, cy) = latlon_to_pixel of the waypoint; it is kept as
\* computed, never clamped: the origin may be negative and the window may
\* reach past the raster.
C16_WindowCenteredUnclamped ==
    SimRunning =>
        LET geo == GeoTransform(loader.meta.transform)
        IN  /\ Len(sim.windows) = Len(sim.path)
            /\ \A k \in 1..Len(sim.path) :
                  LET c == latlon_to_pixel(geo, sim.path[k].utm_x, sim.path[k].utm_y)
                      p == fov_to_pixels(geo, sim.path[k].ground_width)
                      win == sim.windows[k]
                  IN  /\ win.width = p[1]
                      /\ win.height = p[2]
                      /\ 2 * (c[1] - win.x) <= win.width /\ win.width <= 2 * (c[1] - win.x) + 1
                      /\ 2 * (c[2] - win.y) <= win.height /\ win.height <= 2 * (c[2] - win.y) + 1

C16_Witness ==
    /\ SimRunning
    /\ Len(sim.windows) = 2
    /\ sim.windows[1].x < 0
    /\ sim.windows[1].width = 2
    /\ sim.windows[2].x >= 0
    /\ sim.windows[2].x + sim.windows[2].width > loader.meta.width
    /\ sim.windows[2].y < 0

-----------------------------------------------------------------------------
(* FlightPath generators.  A coordinate is an exact rational <<numerator,    *)
(* denominator>> with a positive denominator; degrees are the unit.          *)

RatEq(a, b) == a[1] * b[2] = b[1] * a[2]
RatLe(a, b) == a[1] * b[2] <= b[1] * a[2]

\* np.linspace(start, stop, num, endpoint) for num >= 0
linspace(start, stop, num, endpoint) ==
    LET div == IF endpoint THEN num - 1 ELSE num
    IN  [i \in 1..num |->
            IF div > 0 THEN <<start * div + (i - 1) * (stop - start), div>>
            ELSE <<start + (i - 1) * (stop - start), 1>>]

Reverse(seq) == [i \in 1..Len(seq) |-> seq[Len(seq) + 1 - i]]

DefaultAltitudes == <<50, 100, 150, 200, 250>>
DefaultAltitude == 100
DefaultFov == 60

\* faulty variant: every row is flown west to east
LonOrderAscending(lons, i) == lons

\* lon_order and heading of row i (0-based) of the grid
LonOrder(lons, i) == IF i % 2 = 0 THEN lons ELSE Reverse(lons)
RowHeading(i) == IF i % 2 = 0 THEN 90 ELSE 270

RECURSIVE GridInner(_, _, _, _, _)
\* the first j iterations of the inner loop of grid, entered with acc0 (the
\* waypoints so far and the counter t)
GridInner(lat, lon_order, heading, j, acc0) ==
    IF j = 0 THEN acc0
    ELSE LET acc == GridInner(lat, lon_order, heading, j - 1, acc0)
         IN  [waypoints |-> Append(acc.waypoints,
                                   [lat |-> lat, lon |-> lon_order[j],
                                    altitude_m |-> DefaultAltitude,
                                    heading_deg |-> heading,
                                    fov_deg |-> DefaultFov,
                                    timestamp |-> acc.t]),
              t |-> acc.t + 1]

RECURSIVE GridOuter(_, _, _)
\* the first i iterations of the outer loop of grid
GridOuter(lats, lons, i) ==
    IF i = 0 THEN [waypoints |-> <<>>, t |-> 0]
    ELSE LET acc == GridOuter(lats, lons, i - 1)
         IN  GridInner(lats[i], LonOrder(lons, i - 1), RowHeading(i - 1), Len(lons), acc)

grid(min_lat, min_lon, max_lat, max_lon, rows, cols) ==
    GridOuter(linspace(min_lat, max_lat, rows, TRUE), linspace(min_lon, max_lon, cols, TRUE),
              rows).waypoints

\* faulty variant: the first waypoint sits on the center
spiral_radius_from_zero(radius_deg, i) == radius_deg * i

SpiralRadius(radius_deg, i) == radius_deg * (i + 1)

\* waypoint i (0-based) of the spiral; cos and sin of the heading stay symbolic
SpiralWaypoint(center_lat, center_lon, headings, altitudes, radius_deg, i) ==
    LET radius == SpiralRadius(radius_deg, i)
        angle == headings[i + 1]
    IN  [lat |-> [base |-> center_lat, radius |-> radius, fn |-> "cos", angle |-> angle],
         lon |-> [base |-> center_lon, radius |-> radius, fn |-> "sin", angle |-> angle],
         altitude_m |-> altitudes[(i % Len(altitudes)) + 1],
         heading_deg |-> headings[i + 1],
         fov_deg |-> DefaultFov,
         timestamp |-> i]

spiral(center_lat, center_lon, num_waypoints, altitudes, radius_deg) ==
    LET alts == IF altitudes.given THEN altitudes.list ELSE DefaultAltitudes
        headings == linspace(0, 360, num_waypoints, FALSE)
    IN  [i \in 1..num_waypoints |->
            SpiralWaypoint(center_lat, center_lon, headings, alts, radius_deg, i - 1)]

\* faulty variant: the axes stop one step short of the end point
linear_open_ended(start_lat, start_lon, end_lat, end_lon, num_waypoints, altitude_m, fov_deg) ==
    LET lats == linspace(start_lat, end_lat, num_waypoints, FALSE)
        lons == linspace(start_lon, end_lon, num_waypoints, FALSE)
        heading == [fn |-> "atan2", y |-> end_lon - start_lon, x |-> end_lat - start_lat]
    IN  [i \in 1..num_waypoints |->
            [lat |-> lats[i], lon |-> lons[i], altitude_m |-> altitude_m,
             heading_deg |-> heading, fov_deg |-> fov_deg, timestamp |-> i - 1]]

\* math.degrees(math.atan2(dlon, dlat)) stays symbolic
linear(start_lat, start_lon, end_lat, end_lon, num_waypoints, altitude_m, fov_deg) ==
    LET lats == linspace(start_lat, end_lat, num_waypoints, TRUE)
        lons == linspace(start_lon, end_lon, num_waypoints, TRUE)
        heading == [fn |-> "atan2", y |-> end_lon - start_lon, x |-> end_lat - start_lat]
    IN  [i \in 1..num_waypoints |->
            [lat |-> lats[i], lon |-> lons[i], altitude_m |-> altitude_m,
             heading_deg |-> heading, fov_deg |-> fov_deg, timestamp |-> i - 1]]

GridCalls ==
    {[fn |-> "grid", pc |-> "pending", path |-> <<>>,
      args |-> [min_lat |-> 31, min_lon |-> 34, max_lat |-> 31 + dlat, max_lon |-> 34 + dlon,
                rows |-> r, cols |-> c]] :
        dlat \in {0, 1}, dlon \in {0, 1, 2}, r \in (-1)..MaxRows, c \in (-1)..MaxCols}

SpiralCalls ==
    {[fn |-> "spiral", pc |-> "pending", path |-> <<>>,
      args |-> [center_lat |-> 31, center_lon |-> 34, num_waypoints |-> n,
                altitudes |-> a, radius_deg |-> rad]] :
        n \in (-1)..MaxWaypoints, rad \in {0, 1, 3},
        a \in {[given |-> FALSE, list |-> <<>>], [given |-> TRUE, list |-> <<>>],
               [given |-> TRUE, list |-> <<7>>], [given |-> TRUE, list |-> <<5, 10>>]}}

LinearCalls ==
    {[fn |-> "linear", pc |-> "pending", path |-> <<>>,
      args |-> [start_lat |-> 31, start_lon |-> 34, end_lat |-> 31 + dlat, end_lon |-> 34 + dlon,
                num_waypoints |-> n, altitude_m |-> alt, fov_deg |-> DefaultFov]] :
        dlat \in {-1, 0, 1}, dlon \in {0, 2}, n \in (-1)..MaxWaypoints,
        alt \in {DefaultAltitude, 2 * DefaultAltitude}}

CallGrid ==
    /\ gen.fn = "grid"
    /\ gen.pc = "pending"
    /\ LET a == gen.args
       IN  IF a.rows < 0 \/ a.cols < 0
           THEN /\ gen' = [gen EXCEPT !.pc = "raised"]
                /\ raised' = "ValueError"
           ELSE /\ gen' = [gen EXCEPT !.pc = "returned",
                                      !.path = grid(a.min_lat, a.min_lon, a.max_lat, a.max_lon,
                                                    a.rows, a.cols)]
                /\ raised' = "none"
    /\ UNCHANGED <<fs, loader, last, sim, readers>>

CallSpiral ==
    /\ gen.fn = "spiral"
    /\ gen.pc = "pending"
    /\ LET a == gen.args
       IN  IF a.num_waypoints < 0
           THEN /\ gen' = [gen EXCEPT !.pc = "raised"]
                /\ raised' = "ValueError"
           ELSE IF a.num_waypoints > 0 /\ a.altitudes.given /\ a.altitudes.list = <<>>
           THEN /\ gen' = [gen EXCEPT !.pc = "raised"]
                /\ raised' = "ZeroDivisionError"
           ELSE /\ gen' = [gen EXCEPT !.pc = "returned",
                                      !.path = spiral(a.center_lat, a.center_lon, a.num_waypoints,
                                                      a.altitudes, a.radius_deg)]
                /\ raised' = "none"
    /\ UNCHANGED <<fs, loader, last, sim, readers>>

CallLinear ==
    /\ gen.fn = "linear"
    /\ gen.pc = "pending"
    /\ LET a == gen.args
       IN  IF a.num_waypoints < 0
           THEN /\ gen' = [gen EXCEPT !.pc = "raised"]
                /\ raised' = "ValueError"
           ELSE /\ gen' = [gen EXCEPT !.pc = "returned",
                                      !.path = linear(a.start_lat, a.start_lon, a.end_lat,
                                                      a.end_lon, a.num_waypoints, a.altitude_m,
                                                      a.fov_deg)]
                /\ raised' = "none"
    /\ UNCHANGED <<fs, loader, last, sim, readers>>

InitPath ==
    /\ fs = FlightFs
    /\ loader = NoLoader
    /\ last = NoCall
    /\ raised = "none"
    /\ sim = NoSim
    /\ gen \in GridCalls \cup SpiralCalls \cup LinearCalls
    /\ readers = NoReaders

NextPath ==
    \/ CallGrid
    \/ CallSpiral
    \/ CallLinear

SpecPath == InitPath /\ [][NextPath]_vars

-----------------------------------------------------------------------------
(* Properties of the generators *)

\* the k-th (0-based) of num evenly spaced values from lo to hi inclusive
Spaced(lo, hi, num, k) ==
    IF num > 1 THEN <<lo * (num - 1) + k * (hi - lo), num - 1>> ELSE <<lo, 1>>

\* C9: for rows >= 1 and cols >= 1 grid yields rows*cols waypoints; the one at
\* position r*cols + k lies on latitude row r, has heading 90 and the k-th
\* ascending longitude when r is even, heading 270 and the k-th descending
\* longitude when r is odd, and its timestamp is its position.
C9_GridBoustrophedon ==
    (gen.fn = "grid" /\ gen.pc = "returned" /\ gen.args.rows >= 1 /\ gen.args.cols >= 1) =>
        LET a == gen.args
        IN  /\ Len(gen.path) = a.rows * a.cols
            /\ \A r \in 0..(a.rows - 1), k \in 0..(a.cols - 1) :
                  LET pos == r * a.cols + k
                      wp == gen.path[pos + 1]
                  IN  /\ RatEq(wp.lat, Spaced(a.min_lat, a.max_lat, a.rows, r))
                      /\ wp.timestamp = pos
                      /\ IF r % 2 = 0
                         THEN /\ wp.heading_deg = 90
                              /\ RatEq(wp.lon, Spaced(a.min_lon, a.max_lon, a.cols, k))
                         ELSE /\ wp.heading_deg = 270
                              /\ RatEq(wp.lon, Spaced(a.min_lon, a.max_lon, a.cols, a.cols - 1 - k))
                      /\ (k > 0 /\ r % 2 = 0) => RatLe(gen.path[pos].lon, wp.lon)
                      /\ (k > 0 /\ r % 2 = 1) => RatLe(wp.lon, gen.path[pos].lon)
                      /\ pos > 0 => gen.path[pos].timestamp < wp.timestamp

C9_Witness ==
    /\ gen.fn = "grid"
    /\ gen.pc = "returned"
    /\ gen.args.rows = 3 /\ gen.args.cols = 3
    /\ gen.args.min_lon < gen.args.max_lon
    /\ Len(gen.path) = 9
    /\ gen.path[4].heading_deg = 270
    /\ ~RatEq(gen.path[4].lon, gen.path[1].lon)

\* C10: for n >= 1 and a non-empty altitude cycle spiral yields n waypoints;
\* waypoint i has timestamp i, altitude altitudes[i mod len(altitudes)],
\* heading i*(360/n) and radial offset radius_deg*(i+1), non-decreasing in i.
C10_SpiralWaypoints ==
    (gen.fn = "spiral" /\ gen.pc = "returned" /\ gen.args.num_waypoints >= 1) =>
        LET a == gen.args
            n == a.num_waypoints
            alts == IF a.altitudes.given THEN a.altitudes.list ELSE <<50, 100, 150, 200, 250>>
        IN  /\ Len(gen.path) = n
            /\ \A i \in 0..(n - 1) :
                  LET wp == gen.path[i + 1]
                  IN  /\ wp.timestamp = i
                      /\ wp.altitude_m = alts[(i % Len(alts)) + 1]
                      /\ RatEq(wp.heading_deg, <<i * 360, n>>)
                      /\ wp.lat = [base |-> a.center_lat, radius |-> a.radius_deg * (i + 1),
                                   fn |-> "cos", angle |-> wp.heading_deg]
                      /\ wp.lon = [base |-> a.center_lon, radius |-> a.radius_deg * (i + 1),
                                   fn |-> "sin", angle |-> wp.heading_deg]
                      /\ i > 0 => /\ gen.path[i].lat.radius <= wp.lat.radius
                                  /\ gen.path[i].timestamp < wp.timestamp

C10_Witness ==
    /\ gen.fn = "spiral"
    /\ gen.pc = "returned"
    /\ gen.args.num_waypoints = 4
    /\ gen.args.altitudes = [given |-> TRUE, list |-> <<5, 10>>]
    /\ gen.args.radius_deg > 0
    /\ Len(gen.path) = 4
    /\ gen.path[3].altitude_m = 5
    /\ gen.path[4].lat.radius > gen.path[1].lat.radius

\* C11: for n >= 2 linear yields exactly n waypoints; waypoint i has timestamp
\* i; all share one heading, altitude and field of view; waypoint 0 sits
\* exactly on the start latitude/longitude and waypoint n-1 exactly on the end.
C11_LinearEndpoints ==
    (gen.fn = "linear" /\ gen.pc = "returned" /\ gen.args.num_waypoints >= 2) =>
        LET a == gen.args
            n == a.num_waypoints
        IN  /\ Len(gen.path) = n
            /\ \A i \in 0..(n - 1) :
                  /\ gen.path[i + 1].timestamp = i
                  /\ gen.path[i + 1].heading_deg = gen.path[1].heading_deg
                  /\ gen.path[i + 1].altitude_m = a.altitude_m
                  /\ gen.path[i + 1].fov_deg = a.fov_deg
            /\ RatEq(gen.path[1].lat, <<a.start_lat, 1>>)
            /\ RatEq(gen.path[1].lon, <<a.start_lon, 1>>)
            /\ RatEq(gen.path[n].lat, <<a.end_lat, 1>>)
            /\ RatEq(gen.path[n].lon, <<a.end_lon, 1>>)

C11_Witness ==
    /\ gen.fn = "linear"
    /\ gen.pc = "returned"
    /\ gen.args.num_waypoints = 3
    /\ gen.args.end_lat < gen.args.start_lat
    /\ gen.args.end_lon > gen.args.start_lon
    /\ Len(gen.path) = 3
    /\ RatEq(gen.path[3].lon, <<gen.args.end_lon, 1>>)
    /\ ~RatEq(gen.path[2].lat, gen.path[1].lat)
    /\ gen.path[3].timestamp = 2

-----------------------------------------------------------------------------
(* GeoTransform.latlon_to_pixel and GeoTransform.fov_to_pixels as calls *)

\* math.tan(math.radians(fov_deg / 2)) to three decimals, as <<num, den>>
tan_half(fov_deg) ==
    CASE fov_deg = 0 -> <<0, 1000>>
      [] fov_deg = 60 -> <<577, 1000>>
      [] fov_deg = 90 -> <<1000, 1000>>
      [] fov_deg = 120 -> <<1732, 1000>>
      [] fov_deg = 240 -> <<-1732, 1000>>
      [] fov_deg = 270 -> <<-1000, 1000>>

\* faulty variant: the footprint with the sign flipped
ground_width_negated(altitude_m, fov_deg) ==
    LET t == tan_half(fov_deg)
    IN  <<-2 * altitude_m * t[1], t[2]>>

\* ground_width = 2 * altitude_m * tan(fov/2), a rational <<num, den>>
ground_width(altitude_m, fov_deg) ==
    LET t == tan_half(fov_deg)
    IN  <<2 * altitude_m * t[1], t[2]>>

\* fov_to_pixels(altitude_m, fov_deg): int((num/den) / pixel_size) is
\* int(num / (den * pixel_size))
fov_to_pixels_at(geo, altitude_m, fov_deg) ==
    LET g == ground_width(altitude_m, fov_deg)
    IN  fov_to_pixels([geo EXCEPT !.pixel_size_x = @ * g[2], !.pixel_size_y = @ * g[2]], g[1])

\* the fixture's north-up transform, one with a positive y scale and coarser
\* columns, and one whose columns run westwards
Transforms ==
    {FixtureTransform, <<4, 0, 4000, 0, 2, 8000>>, <<-2, 0, 4000, 0, -2, 8000>>}

PlanarOffsets == {-5, -3, -1, 0, 1, 2, 3}
Altitudes == {-400, 0, 200, 400, 800}
FovDegs == {0, 60, 90, 120, 240, 270}

LatlonToPixelCalls ==
    {[fn |-> "latlon_to_pixel", pc |-> "pending", ret |-> <<0, 0>>,
      args |-> [transform |-> t, utm_x |-> t[3] + dx, utm_y |-> t[6] + dy]] :
        t \in Transforms, dx \in PlanarOffsets, dy \in PlanarOffsets}

FovToPixelsCalls ==
    {[fn |-> "fov_to_pixels", pc |-> "pending", ret |-> <<0, 0>>,
      args |-> [transform |-> t, altitude_m |-> a, fov_deg |-> f]] :
        t \in Transforms, a \in Altitudes, f \in FovDegs}

CallLatlonToPixel ==
    /\ gen.fn = "latlon_to_pixel"
    /\ gen.pc = "pending"
    /\ gen' = [gen EXCEPT !.pc = "returned",
                          !.ret = latlon_to_pixel(GeoTransform(gen.args.transform),
                                                  gen.args.utm_x, gen.args.utm_y)]
    /\ UNCHANGED <<fs, loader, last, raised, sim, readers>>

CallFovToPixels ==
    /\ gen.fn = "fov_to_pixels"
    /\ gen.pc = "pending"
    /\ gen' = [gen EXCEPT !.pc = "returned",
                          !.ret = fov_to_pixels_at(GeoTransform(gen.args.transform),
                                                   gen.args.altitude_m, gen.args.fov_deg)]
    /\ UNCHANGED <<fs, loader, last, raised, sim, readers>>

InitGeo ==
    /\ fs = FlightFs
    /\ loader = NoLoader
    /\ last = NoCall
    /\ raised = "none"
    /\ sim = NoSim
    /\ gen \in LatlonToPixelCalls \cup FovToPixelsCalls
    /\ readers = NoReaders

NextGeo ==
    \/ CallLatlonToPixel
    \/ CallFovToPixels

SpecGeo == InitGeo /\ [][NextGeo]_vars

-----------------------------------------------------------------------------
(* Properties of the pixel conversions *)

\* r is the quotient n/d cut toward zero: floor(q) for q >= 0, -floor(-q) for q < 0
TruncatedToward0(r, n, d) ==
    LET num == IF d > 0 THEN n ELSE -n
        den == Abs(d)
    IN  IF num >= 0
        THEN r * den <= num /\ num < (r + 1) * den
        ELSE (-r) * den <= -num /\ -num < (-r + 1) * den

\* C12: latlon_to_pixel and fov_to_pixels cut each quotient (planar offset /
\* pixel size, ground footprint / pixel size) toward zero: floor(q) for q >= 0
\* and -floor(-q) for q < 0; so a point less than one pixel west or north of
\* the raster origin has pixel index 0, not -1.
C12_TruncationTowardZero ==
    /\ (gen.fn = "latlon_to_pixel" /\ gen.pc = "returned") =>
          LET t == gen.args.transform
              dx == gen.args.utm_x - t[3]
              dy == t[6] - gen.args.utm_y
          IN  /\ TruncatedToward0(gen.ret[1], dx, t[1])
              /\ TruncatedToward0(gen.ret[2], dy, Abs(t[5]))
              /\ (t[1] > 0 /\ -t[1] < dx /\ dx < 0) => gen.ret[1] = 0
              /\ (-Abs(t[5]) < dy /\ dy < 0) => gen.ret[2] = 0
    /\ (gen.fn = "fov_to_pixels" /\ gen.pc = "returned") =>
          LET t == gen.args.transform
              g == ground_width(gen.args.altitude_m, gen.args.fov_deg)
          IN  /\ TruncatedToward0(gen.ret[1], g[1], g[2] * t[1])
              /\ TruncatedToward0(gen.ret[2], g[1], g[2] * Abs(t[5]))

C12_Witness ==
    /\ gen.fn = "latlon_to_pixel"
    /\ gen.pc = "returned"
    /\ gen.args.transform = FixtureTransform
    /\ gen.args.utm_x = FixtureTransform[3] - 1
    /\ gen.args.utm_y = FixtureTransform[6] + 1
    /\ gen.ret = <<0, 0>>

Leq2(p, q) == p[1] <= q[1] /\ p[2] <= q[2]

\* C14 as stated: fov_to_pixels never decreases, in either output, when the
\* altitude grows at a fixed field of view or the field of view grows at a
\* fixed altitude (any altitude, any field of view, any transform).
C14_MonotoneEverywhere ==
    (gen.fn = "fov_to_pixels" /\ gen.pc = "returned") =>
        LET geo == GeoTransform(gen.args.transform)
            a == gen.args.altitude_m
            f == gen.args.fov_deg
        IN  /\ \A a2 \in Altitudes : a <= a2 => Leq2(gen.ret, fov_to_pixels_at(geo, a2, f))
            /\ \A f2 \in FovDegs : f <= f2 => Leq2(gen.ret, fov_to_pixels_at(geo, a, f2))

\* C14, amended: with a positive x pixel size, fov_to_pixels never decreases
\* in either output when the altitude grows at a fixed field of view in
\* [0, 180) degrees, or when the field of view grows within [0, 180) degrees
\* at a fixed altitude >= 0.
C14_MonotoneOnSensorDomain ==
    (gen.fn = "fov_to_pixels" /\ gen.pc = "returned" /\ gen.args.transform[1] > 0) =>
        LET geo == GeoTransform(gen.args.transform)
            a == gen.args.altitude_m
            f == gen.args.fov_deg
        IN  /\ (0 <= f /\ f < 180) =>
                  \A a2 \in Altitudes : a <= a2 => Leq2(gen.ret, fov_to_pixels_at(geo, a2, f))
            /\ (a >= 0 /\ 0 <= f) =>
                  \A f2 \in FovDegs :
                      (f <= f2 /\ f2 < 180) => Leq2(gen.ret, fov_to_pixels_at(geo, a, f2))

C14_Witness ==
    /\ gen.fn = "fov_to_pixels"
    /\ gen.pc = "returned"
    /\ gen.args.transform = FixtureTransform
    /\ gen.args.altitude_m = 400
    /\ gen.args.fov_deg = 60
    /\ gen.ret = <<230, 230>>
    /\ gen.ret[1] < fov_to_pixels_at(GeoTransform(FixtureTransform), 800, 60)[1]
    /\ gen.ret[1] < fov_to_pixels_at(GeoTransform(FixtureTransform), 400, 90)[1]

-----------------------------------------------------------------------------
(* Several readers of one FastGeoMap, a call being a read of the metadata   *)
(* (the clamping, into the call's local variables) and then a read of the   *)
(* buffer (the slice)                                                       *)

Readers == 1..NumReaders

ReaderOps == {"is_valid_window", "get_window", "get_window_copy"}

ReaderWindows ==
    {<<0, 0, Width, Height>>, <<-1, 0, 2, 1>>, <<1, 1, Width, Height>>, <<0, 0, 0, 1>>}

IdleCall ==
    [pc |-> "idle", op |-> "none", win |-> <<0, 0, 0, 0>>, ok |-> FALSE, ret |-> NoneVal]

\* faulty variant: the clamped values are kept in one place shared by all calls
SharedFrame(r) == 1

\* x, y, width, height of a call are local variables of that call
Frame(r) == r

\* get_window: the clamping of the origin and of the extent
ClampWindow(meta, x, y, width, height) ==
    LET x1 == Max(0, x)
        y1 == Max(0, y)
    IN  <<x1, y1, Min(width, meta.width - x1), Min(height, meta.height - y1)>>

\* get_window: the empty result or the slice, from the clamped values
SliceWindow(meta, c) ==
    LET rows == NpSlice(meta.height, c[2], c[2] + c[4])
        cols == NpSlice(meta.width, c[1], c[1] + c[3])
    IN  IF c[3] <= 0 \/ c[4] <= 0
        THEN EmptyArray(meta.count)
        ELSE [kind |-> "view", shape |-> <<meta.count, rows[2], cols[2]>>,
              x0 |-> cols[1], y0 |-> rows[1], data |-> <<>>]

ReaderCall(r) ==
    /\ loader.state = "ready"
    /\ readers.call[r].pc = "idle"
    /\ \E op \in ReaderOps, win \in ReaderWindows :
          readers' = [readers EXCEPT !.call[r] = [@ EXCEPT !.pc = "called", !.op = op, !.win = win]]
    /\ UNCHANGED <<fs, loader, last, raised, sim, gen>>

ReaderReadMeta(r) ==
    /\ readers.call[r].pc = "called"
    /\ LET c == readers.call[r]
           w == c.win
       IN  IF c.op = "is_valid_window"
           THEN readers' = [readers EXCEPT
                               !.call[r] = [@ EXCEPT !.pc = "returned",
                                                     !.ok = is_valid_window(loader.meta, w[1], w[2],
                                                                            w[3], w[4])]]
           ELSE readers' = [readers EXCEPT
                               !.call[r] = [@ EXCEPT !.pc = "clamped"],
                               !.frame[Frame(r)] = ClampWindow(loader.meta, w[1], w[2], w[3], w[4])]
    /\ UNCHANGED <<fs, loader, last, raised, sim, gen>>

ReaderReadData(r) ==
    /\ readers.call[r].pc = "clamped"
    /\ LET view == SliceWindow(loader.meta, readers.frame[Frame(r)])
       IN  readers' = [readers EXCEPT
                          !.call[r] = [@ EXCEPT !.pc = "returned",
                                                !.ret = IF readers.call[r].op = "get_window_copy"
                                                        THEN NpArray(loader, view)
                                                        ELSE view]]
    /\ UNCHANGED <<fs, loader, last, raised, sim, gen>>

InitReaders ==
    /\ fs = FlightFs
    /\ loader = [state |-> "ready", meta |-> fs.meta, data |-> Memmap(fs)]
    /\ last = NoCall
    /\ raised = "none"
    /\ sim = NoSim
    /\ gen = NoGen
    /\ readers = [call |-> [r \in Readers |-> IdleCall],
                  frame |-> [r \in Readers |-> <<0, 0, 0, 0>>]]

NextReaders ==
    \E r \in Readers :
        \/ ReaderCall(r)
        \/ ReaderReadMeta(r)
        \/ ReaderReadData(r)

SpecReaders == InitReaders /\ [][NextReaders]_vars

\* what the call of reader r returns when nothing else runs
Alone(ld, c) ==
    CASE c.op = "is_valid_window" ->
            [ok |-> is_valid_window(ld.meta, c.win[1], c.win[2], c.win[3], c.win[4]),
             ret |-> NoneVal]
      [] c.op = "get_window" ->
            [ok |-> FALSE, ret |-> get_window(ld.meta, c.win[1], c.win[2], c.win[3], c.win[4])]
      [] c.op = "get_window_copy" ->
            [ok |-> FALSE, ret |-> get_window_copy(ld, c.win[1], c.win[2], c.win[3], c.win[4])]

\* C13: readers need no lock: however the calls of several readers of one
\* store interleave, every call returns what it returns when run alone, and
\* the store's buffer and metadata stay what they were.
C13_ConcurrentReadersSafe ==
    /\ [](\A r \in Readers :
            readers.call[r].pc = "returned" =>
                LET c == readers.call[r]
                    alone == Alone([state |-> "ready", meta |-> fs.meta, data |-> Memmap(fs)], c)
                IN  c.ok = alone.ok /\ c.ret = alone.ret)
    /\ [][loader' = loader /\ fs' = fs]_vars

C13_Witness ==
    /\ readers.call[1].pc = "returned"
    /\ readers.call[1].op = "get_window"
    /\ readers.call[1].win = <<-1, 0, 2, 1>>
    /\ readers.call[1].ret.shape = <<loader.meta.count, 1, 2>>
    /\ readers.call[2].pc = "clamped"
    /\ readers.call[2].op = "get_window_copy"
    /\ readers.call[2].win = <<1, 1, Width, Height>>

====
